---- MODULE Spec2Model ----
(***************************************************************************)
(* Model of KarmaRex/database/subreddits.py: SubredditGroupDatabase, the   *)
(* per-group store of two string sets ("subreddits" and "comments") kept   *)
(* in a path-addressed key-value database.                                 *)
(*                                                                         *)
(* Python and JSON values are tagged records:                              *)
(*   [t |-> "str", s |-> "a"]      a string                                *)
(*   [t |-> "num", n |-> 5]        a number                                *)
(*   [t |-> "none"]                None / an absent value                  *)
(*   [t |-> "dict", m |-> f]       a mapping, f a function on its keys     *)
(*   [t |-> "list", v |-> seq]     a list                                  *)
(*   [t |-> "tuple", v |-> seq]    a tuple (also the *args of a call)      *)
(*   [t |-> "set", e |-> S]        a set                                   *)
(***************************************************************************)
EXTENDS Integers, Sequences, FiniteSets, TLC

VARIABLES
    db,        \* the database below ("subreddits", "groups"): group name -> document
    pc,        \* per caller: "new", "init_write", "add_write", "return", "idle"
    name,      \* per caller: self.__name of its instance
    db_data,   \* per caller: the local db_data of __normalize_database
    op,        \* per caller: the public method of the current / last call
    fld,       \* per caller: the field key of the current / last call
    args,      \* per caller: the argument tuple of the current / last call
    rd,        \* per caller: the set read by self.subreddits / self.comments
    err,       \* per caller: how the last call ended: "ok" or "TypeError"
    dirty,     \* per caller, history: another write came between this add's
               \* read and write, or a set, a repair or a stale add's write
               \* came after its write
    item,      \* the argument of a bare __normalize_str_args call
    result,    \* what that call returned
    again      \* what normalizing a collection around that result returned

vars == <<db, pc, name, db_data, op, fld, args, rd, err, dirty,
          item, result, again>>

-----------------------------------------------------------------------------
(* Values *)

Str(s) == [t |-> "str", s |-> s]
Num(n) == [t |-> "num", n |-> n]
None == [t |-> "none"]
Dict(m) == [t |-> "dict", m |-> m]
List(v) == [t |-> "list", v |-> v]
Tuple(v) == [t |-> "tuple", v |-> v]
PySet(e) == [t |-> "set", e |-> e]

EmptyMap == [k \in {} |-> None]

Range(seq) == {seq[i] : i \in 1..Len(seq)}

\* The strings the callers pass.
Strings == {"a", "b"}

\* isinstance(x, str)
IsStr(x) == x.t = "str"

\* isinstance(x, dict)
IsDict(x) == x.t = "dict"

\* The leaves of an argument: strings and the non-string leaves 5, None, {}.
Leaves == {Str(s) : s \in Strings} \cup {Num(5), None, Dict(EmptyMap)}

\* Python can put a value in a set only when it is hashable.
RECURSIVE Hashable(_)
Hashable(x) ==
    \/ x.t \in {"str", "num", "none"}
    \/ x.t = "tuple" /\ \A i \in 1..Len(x.v) : Hashable(x.v[i])

\* Bounds of the enumerated arguments, in nodes of the value tree.
MaxNodes == 4
MaxArgNodes == 2

\* ItemsN(n): the values with n nodes; ForestsN(m): the sequences of values
\* with m nodes in all.
RECURSIVE ItemsN(_), ForestsN(_)
ItemsN(n) ==
    IF n = 1
    THEN Leaves \cup {List(<<>>), Tuple(<<>>), PySet({})}
    ELSE {List(f) : f \in ForestsN(n - 1)}
         \cup {Tuple(f) : f \in ForestsN(n - 1)}
         \cup {PySet(Range(f)) :
                 f \in {g \in ForestsN(n - 1) : \A i \in 1..Len(g) : Hashable(g[i])}}
ForestsN(m) ==
    IF m = 0
    THEN {<<>>}
    ELSE UNION {{<<x>> \o f : x \in ItemsN(k), f \in ForestsN(m - k)} : k \in 1..m}

\* The inputs of __normalize_str_args that are enumerated.
NormInputs == UNION {ItemsN(n) : n \in 1..MaxNodes}

\* The *args tuples that are enumerated.
ArgTuples == {Tuple(f) : f \in UNION {ForestsN(m) : m \in 0..MaxArgNodes}}

-----------------------------------------------------------------------------
(* __normalize_str_args *)

\* The same without the set case: isinstance(item, (list, tuple)).
RECURSIVE NormalizeStrArgs_NoSets(_)
NormalizeStrArgs_NoSets(x) ==
    IF IsStr(x)
    THEN {x.s}
    ELSE IF x.t \in {"list", "tuple"}
    THEN UNION {NormalizeStrArgs_NoSets(x.v[i]) : i \in 1..Len(x.v)}
    ELSE {}

RECURSIVE NormalizeStrArgs(_)
NormalizeStrArgs(x) ==
    IF IsStr(x)
    THEN {x.s}
    ELSE IF x.t \in {"list", "tuple"}
    THEN UNION {NormalizeStrArgs(x.v[i]) : i \in 1..Len(x.v)}
    ELSE IF x.t = "set"
    THEN UNION {NormalizeStrArgs(y) : y \in x.e}
    ELSE {}

\* The Python set holding the strings of S.
StrSet(S) == {Str(s) : s \in S}

\* list(S) for a Python set S of strings: some ordering of its members.
RECURSIVE Perms(_)
Perms(S) ==
    IF S = {}
    THEN {<<>>}
    ELSE UNION {{<<x>> \o q : q \in Perms(S \ {x})} : x \in S}

ListsOf(S) == {List([i \in 1..Len(q) |-> Str(q[i])]) : q \in Perms(S)}

\* set(v) raises TypeError unless v can be iterated; of the stored values
\* modelled here only a list can.
CanIterate(v) == v.t = "list"

\* set(v) for a stored list v.
ToSet(v) == Range(v.v)

-----------------------------------------------------------------------------
(* The database: path-addressed get and set *)

Groups == {"art", "tech"}

SUBREDDITS_LIST_KEY == "subreddits"
COMMENTS_LIST_KEY == "comments"
FieldKeys == {SUBREDDITS_LIST_KEY, COMMENTS_LIST_KEY}

DEFAULT_SUBREDDIT_GROUP_DB_STRUCTURE ==
    [k \in {SUBREDDITS_LIST_KEY, COMMENTS_LIST_KEY} |-> List(<<>>)]

\* The same without *args: every path is the path of the group's document.
AccessDb_DropsPath(g, path) == <<"subreddits", "groups", g>>

\* _access_db(*path) of an instance bound to group g
AccessDb(g, path) == <<"subreddits", "groups", g>> \o path

\* handle.get(): the value at the path, None where there is none
DbGet(d, path) ==
    LET doc == d[path[3]]
    IN  IF Len(path) = 3
        THEN doc
        ELSE IF IsDict(doc) /\ path[4] \in DOMAIN doc.m
        THEN doc.m[path[4]]
        ELSE None

\* handle.set(value): the value at the path is replaced, the rest is kept
DbSet(d, path, value) ==
    IF Len(path) = 3
    THEN [d EXCEPT ![path[3]] = value]
    ELSE LET doc == d[path[3]]
             m == IF IsDict(doc) THEN doc.m ELSE EmptyMap
         IN  [d EXCEPT ![path[3]] =
                 Dict([k \in DOMAIN m \cup {path[4]} |->
                          IF k = path[4] THEN value ELSE m[k]])]

-----------------------------------------------------------------------------
(* __normalize_database, on the value db.get() returned *)

\* The same starting from an empty dict whatever was loaded.
NormalizeDatabase_FromEmpty(data) == Dict(DEFAULT_SUBREDDIT_GROUP_DB_STRUCTURE)

\* The same with the test `db_data is None` in place of the isinstance test:
\* a stored value that is neither None nor a dict is written back as it is.
NormalizeDatabase_OnlyNone(data) ==
    IF data = None
    THEN Dict(DEFAULT_SUBREDDIT_GROUP_DB_STRUCTURE)
    ELSE IF IsDict(data)
    THEN Dict([k \in DOMAIN data.m \cup DOMAIN DEFAULT_SUBREDDIT_GROUP_DB_STRUCTURE |->
                 IF k \in DOMAIN data.m
                 THEN data.m[k]
                 ELSE DEFAULT_SUBREDDIT_GROUP_DB_STRUCTURE[k]])
    ELSE data

NormalizeDatabase(data) ==
    LET m == IF IsDict(data) THEN data.m ELSE EmptyMap
    IN  Dict([k \in DOMAIN m \cup DOMAIN DEFAULT_SUBREDDIT_GROUP_DB_STRUCTURE |->
                 IF k \in DOMAIN m
                 THEN m[k]
                 ELSE DEFAULT_SUBREDDIT_GROUP_DB_STRUCTURE[k]])

-----------------------------------------------------------------------------
(* Callers, and the documents and arguments they start from *)

Procs == {"p1", "p2"}
SeqProcs == {"p1"}
\* The groups instances are constructed for.
CallerGroups == {"art"}

NoName == "-"
NoKey == "-"
NoArgs == Tuple(<<>>)
NoResult == [done |-> FALSE, val |-> {}]

DocNotADict == List(<<Str("not"), Str("a"), Str("dict")>>)
DocEmptyDict == Dict(EmptyMap)
DocMissingComments ==
    Dict((SUBREDDITS_LIST_KEY :> List(<<Str("a")>>)) @@ ("extra_key" :> Num(1)))
DocMissingSubreddits == Dict(COMMENTS_LIST_KEY :> List(<<Str("b"), Str("b")>>))
DocComplete ==
    Dict((SUBREDDITS_LIST_KEY :> List(<<Str("a")>>)) @@ (COMMENTS_LIST_KEY :> List(<<>>)))
DocNumberField ==
    Dict((SUBREDDITS_LIST_KEY :> Num(5)) @@ (COMMENTS_LIST_KEY :> List(<<>>)))
DocNumberInList ==
    Dict((SUBREDDITS_LIST_KEY :> List(<<Str("a")>>))
         @@ (COMMENTS_LIST_KEY :> List(<<Str("b"), Num(7)>>)))

\* What the database may hold for a group before an instance is constructed.
InitDocs ==
    {None, DocNotADict, DocEmptyDict, DocMissingComments, DocMissingSubreddits,
     DocComplete, DocNumberField, DocNumberInList}

ConcInitDocs == {None, DocComplete}

\* What the database may hold for a group no instance is constructed for.
OtherDocs == {None, DocMissingComments}

\* The arguments of add_subreddit / add_comment.
SingleValues == Leaves \cup {Num(42), List(<<Str("a")>>)}

ConcArgs == {Tuple(<<Str("a")>>), Tuple(<<List(<<Str("b")>>), Num(5)>>)}

-----------------------------------------------------------------------------
(* The operations *)

nvars == <<item, result, again>>

\* History: the callers an add's write to field key of group g leaves with
\* a stale read.
StaleAdds(p, g, key) ==
    {q \in Procs \ {p} : pc[q] = "add_write" /\ name[q] = g /\ fld[q] = key}

\* History: the callers whose add a set, a repair or the write of a stale add
\* to the fields keys of group g overtakes or overwrites.
BrokenAdds(p, g, keys) ==
    {q \in Procs \ {p} : /\ pc[q] \in {"add_write", "return"}
                          /\ op[q] \in {"add", "add_single"}
                          /\ name[q] = g
                          /\ fld[q] \in keys}

MarkDirty(S) == [q \in Procs |-> IF q \in S THEN TRUE ELSE dirty[q]]

\* self.subreddits / self.comments: the stored value the property reads
ReadField(d, g, key) == DbGet(d, AccessDb(g, <<key>>))

\* The same merging what the field holds into what is written.
WriteField_Merges(g, key, a) ==
    \E l \in ListsOf(NormalizeStrArgs(a)
                     \cup NormalizeStrArgs(DbGet(db, AccessDb(g, <<key>>)))) :
        db' = DbSet(db, AccessDb(g, <<key>>), l)

\* the body of set_subreddits / set_comments
WriteField(g, key, a) ==
    \E l \in ListsOf(NormalizeStrArgs(a)) :
        db' = DbSet(db, AccessDb(g, <<key>>), l)

\* __init__ up to db.get() in __normalize_database
InitRead(p, g) ==
    /\ pc[p] \in {"new", "idle"}
    /\ name' = [name EXCEPT ![p] = g]
    /\ db_data' = [db_data EXCEPT ![p] = DbGet(db, AccessDb(g, <<>>))]
    /\ pc' = [pc EXCEPT ![p] = "init_write"]
    /\ op' = [op EXCEPT ![p] = "init"]
    /\ UNCHANGED <<db, fld, args, rd, err, dirty, nvars>>

\* the rest of __normalize_database: the repair and db.set(db_data)
InitWrite(p) ==
    /\ pc[p] = "init_write"
    /\ db' = DbSet(db, AccessDb(name[p], <<>>), NormalizeDatabase(db_data[p]))
    /\ pc' = [pc EXCEPT ![p] = "return"]
    /\ dirty' = MarkDirty(BrokenAdds(p, name[p], FieldKeys))
    /\ UNCHANGED <<name, db_data, op, fld, args, rd, err, nvars>>

SetField(p, key, a) ==
    /\ pc[p] = "idle"
    /\ WriteField(name[p], key, a)
    /\ pc' = [pc EXCEPT ![p] = "return"]
    /\ op' = [op EXCEPT ![p] = "set"]
    /\ fld' = [fld EXCEPT ![p] = key]
    /\ args' = [args EXCEPT ![p] = a]
    /\ dirty' = MarkDirty(BrokenAdds(p, name[p], {key}))
    /\ UNCHANGED <<name, db_data, rd, err, nvars>>

\* The read of an add: self.<field>, which raises TypeError when set() cannot
\* iterate the stored value.
AddRead(p, key, a, method) ==
    /\ pc[p] = "idle"
    /\ op' = [op EXCEPT ![p] = method]
    /\ fld' = [fld EXCEPT ![p] = key]
    /\ args' = [args EXCEPT ![p] = a]
    /\ LET v == ReadField(db, name[p], key)
       IN  IF CanIterate(v)
           THEN /\ rd' = [rd EXCEPT ![p] = ToSet(v)]
                /\ pc' = [pc EXCEPT ![p] = "add_write"]
                /\ UNCHANGED err
           ELSE /\ err' = [err EXCEPT ![p] = "TypeError"]
                /\ pc' = [pc EXCEPT ![p] = "return"]
                /\ UNCHANGED rd
    /\ UNCHANGED <<db, name, db_data, dirty, nvars>>

\* The same without the stored members: normalize(args) alone.
AddUnion_DropsRead(read, a) == PySet(StrSet(NormalizeStrArgs(a)))

\* The value an add passes to set_<field>: self.<field> | normalize(args)
AddUnion(read, a) == PySet(read \cup StrSet(NormalizeStrArgs(a)))

\* The write of an add: set_<field>(union)
AddWrite(p) ==
    /\ pc[p] = "add_write"
    /\ WriteField(name[p], fld[p], Tuple(<<AddUnion(rd[p], args[p])>>))
    /\ pc' = [pc EXCEPT ![p] = "return"]
    /\ dirty' = MarkDirty(StaleAdds(p, name[p], fld[p])
                          \cup IF dirty[p]
                               THEN BrokenAdds(p, name[p], {fld[p]})
                               ELSE {})
    /\ UNCHANGED <<name, db_data, op, fld, args, rd, err, nvars>>

\* add_subreddit / add_comment: the type check, then add_<field>(x)
AddSingle(p, key, x) ==
    IF IsStr(x)
    THEN AddRead(p, key, Tuple(<<x>>), "add_single")
    ELSE /\ pc[p] = "idle"
         /\ pc' = [pc EXCEPT ![p] = "return"]
         /\ op' = [op EXCEPT ![p] = "add_single"]
         /\ fld' = [fld EXCEPT ![p] = key]
         /\ args' = [args EXCEPT ![p] = Tuple(<<x>>)]
         /\ err' = [err EXCEPT ![p] = "TypeError"]
         /\ UNCHANGED <<db, name, db_data, rd, dirty, nvars>>

\* the properties subreddits / comments, read by a caller
GetField(p, key) ==
    /\ pc[p] = "idle"
    /\ pc' = [pc EXCEPT ![p] = "return"]
    /\ op' = [op EXCEPT ![p] = "get"]
    /\ fld' = [fld EXCEPT ![p] = key]
    /\ LET v == ReadField(db, name[p], key)
       IN  IF CanIterate(v)
           THEN /\ rd' = [rd EXCEPT ![p] = ToSet(v)]
                /\ UNCHANGED err
           ELSE /\ err' = [err EXCEPT ![p] = "TypeError"]
                /\ UNCHANGED rd
    /\ UNCHANGED <<db, name, db_data, args, dirty, nvars>>

\* The call is over: its frame (arguments, locals, result or exception) is
\* gone and the caller is free to make the next call.
Return(p) ==
    /\ pc[p] = "return"
    /\ pc' = [pc EXCEPT ![p] = "idle"]
    /\ db_data' = [db_data EXCEPT ![p] = None]
    /\ op' = [op EXCEPT ![p] = "none"]
    /\ fld' = [fld EXCEPT ![p] = NoKey]
    /\ args' = [args EXCEPT ![p] = NoArgs]
    /\ rd' = [rd EXCEPT ![p] = {}]
    /\ err' = [err EXCEPT ![p] = "ok"]
    /\ dirty' = [dirty EXCEPT ![p] = FALSE]
    /\ UNCHANGED <<db, name, nvars>>

set_subreddits(p, a) == SetField(p, SUBREDDITS_LIST_KEY, a)
add_subreddits(p, a) == AddRead(p, SUBREDDITS_LIST_KEY, a, "add")
add_subreddit(p, x) == AddSingle(p, SUBREDDITS_LIST_KEY, x)
subreddits(p) == GetField(p, SUBREDDITS_LIST_KEY)

set_comments(p, a) == SetField(p, COMMENTS_LIST_KEY, a)
add_comments(p, a) == AddRead(p, COMMENTS_LIST_KEY, a, "add")
add_comment(p, x) == AddSingle(p, COMMENTS_LIST_KEY, x)
comments(p) == GetField(p, COMMENTS_LIST_KEY)

\* A bare call of __normalize_str_args
NormalizeCall ==
    /\ ~result.done
    /\ result' = [done |-> TRUE, val |-> NormalizeStrArgs(item)]
    /\ UNCHANGED <<db, pc, name, db_data, op, fld, args, rd, err, dirty,
                   item, again>>

\* __normalize_str_args on a list or tuple around the set it returned
NormalizeAgain(kind) ==
    /\ result.done
    /\ ~again.done
    /\ again' = [done |-> TRUE,
                 val |-> NormalizeStrArgs([t |-> kind, v |-> <<PySet(StrSet(result.val))>>])]
    /\ UNCHANGED <<db, pc, name, db_data, op, fld, args, rd, err, dirty,
                   item, result>>

-----------------------------------------------------------------------------
(* Specifications *)

CallersInit ==
    /\ pc = [p \in Procs |-> "new"]
    /\ name = [p \in Procs |-> NoName]
    /\ db_data = [p \in Procs |-> None]
    /\ op = [p \in Procs |-> "none"]
    /\ fld = [p \in Procs |-> NoKey]
    /\ args = [p \in Procs |-> NoArgs]
    /\ rd = [p \in Procs |-> {}]
    /\ err = [p \in Procs |-> "ok"]
    /\ dirty = [p \in Procs |-> FALSE]

NormIdle ==
    /\ item = None
    /\ result = NoResult
    /\ again = NoResult

\* Two callers, each constructing instances for either group and calling them,
\* every database round trip a step of its own.
Init ==
    /\ db \in {d \in [Groups -> ConcInitDocs] : \A g \in Groups \ CallerGroups : d[g] = None}
    /\ CallersInit
    /\ NormIdle

Next ==
    \E p \in Procs :
        \/ \E g \in CallerGroups : InitRead(p, g)
        \/ InitWrite(p)
        \/ pc[p] = "idle" /\ \E a \in ConcArgs : set_subreddits(p, a)
        \/ pc[p] = "idle" /\ \E a \in ConcArgs : add_subreddits(p, a)
        \/ subreddits(p)
        \/ pc[p] = "idle" /\ \E a \in ConcArgs : set_comments(p, a)
        \/ pc[p] = "idle" /\ \E a \in ConcArgs : add_comments(p, a)
        \/ comments(p)
        \/ AddWrite(p)
        \/ Return(p)

Spec == Init /\ [][Next]_vars

\* One caller on one group, with no other writer, over every enumerated
\* prior document and argument tuple.
SeqInit ==
    /\ db \in {d \in [Groups -> InitDocs] : \A g \in Groups \ CallerGroups : d[g] \in OtherDocs}
    /\ CallersInit
    /\ NormIdle

SeqNext ==
    \E p \in SeqProcs :
        \/ \E g \in CallerGroups : InitRead(p, g)
        \/ InitWrite(p)
        \/ pc[p] = "idle" /\ \E a \in ArgTuples : set_subreddits(p, a)
        \/ pc[p] = "idle" /\ \E a \in ArgTuples : add_subreddits(p, a)
        \/ pc[p] = "idle" /\ \E x \in SingleValues : add_subreddit(p, x)
        \/ subreddits(p)
        \/ pc[p] = "idle" /\ \E a \in ArgTuples : set_comments(p, a)
        \/ pc[p] = "idle" /\ \E a \in ArgTuples : add_comments(p, a)
        \/ pc[p] = "idle" /\ \E x \in SingleValues : add_comment(p, x)
        \/ comments(p)
        \/ AddWrite(p)
        \/ Return(p)

SeqSpec == SeqInit /\ [][SeqNext]_vars

\* __normalize_str_args alone, over every enumerated input.
NormInit ==
    /\ db = [g \in Groups |-> None]
    /\ CallersInit
    /\ item \in NormInputs
    /\ result = NoResult
    /\ again = NoResult

NormNext ==
    \/ NormalizeCall
    \/ \E kind \in {"list", "tuple"} : NormalizeAgain(kind)

NormSpec == NormInit /\ [][NormNext]_vars

-----------------------------------------------------------------------------
(* What the properties are stated with *)

\* String s is a leaf of value x.
RECURSIVE Occurs(_, _)
Occurs(s, x) ==
    \/ x.t = "str" /\ x.s = s
    \/ x.t \in {"list", "tuple"} /\ \E i \in 1..Len(x.v) : Occurs(s, x.v[i])
    \/ x.t = "set" /\ \E y \in x.e : Occurs(s, y)

\* The string leaves of value x.
StrLeaves(x) == {s \in Strings : Occurs(s, x)}

\* The stored value of field key of group g.
Stored(d, g, key) == d[g].m[key]

\* A document with both fields.
Initialized(doc) == IsDict(doc) /\ FieldKeys \subseteq DOMAIN doc.m

\* A sequence of strings.
IsStringList(v) == v.t = "list" /\ \A i \in 1..Len(v.v) : IsStr(v.v[i])

\* What get_<field>() returns on database d: the members of the stored list.
Members(d, g, key) == Range(Stored(d, g, key).v)

\* The mapping of a document without key.
Rest(doc, key) == [k \in DOMAIN doc.m \ {key} |-> doc.m[k]]

\* Caller p has just come back from the method, which did not raise.
Returned(p, method) == pc[p] = "return" /\ op[p] = method /\ err[p] = "ok"

\* This step is the db.set of the construction by caller p.
RepairStep(p) == pc[p] = "init_write" /\ pc'[p] = "return"

\* This step is the write of an add by caller p.
AddWriteStep(p) == pc[p] = "add_write" /\ pc'[p] = "return"

-----------------------------------------------------------------------------
(* C1 *)

\* C1: after the construction of an instance for a group, whatever the
\* database held for the group before, the stored document is a mapping with
\* both fields present, each a sequence of strings.
C1_FieldsAreStringLists ==
    \A p \in Procs :
        (pc[p] = "return" /\ op[p] = "init") =>
            /\ Initialized(db[name[p]])
            /\ \A key \in FieldKeys : IsStringList(Stored(db, name[p], key))

-----------------------------------------------------------------------------
(* C2 *)

\* A step of an instance that is only constructed and read, its group being
\* initialized when its construction loaded the document: a round trip of
\* its construction or of a get.
ReadOnlyStep(p) ==
    \/ pc[p] \in {"new", "idle"} /\ pc'[p] = "init_write"
    \/ RepairStep(p) /\ Initialized(db_data[p])
    \/ pc[p] = "idle" /\ pc'[p] = "return" /\ op'[p] = "get"

\* C2: on an already initialized group, no round trip of an instance that is
\* only constructed and read changes the stored feeds or comments.
C2_ReadOnlyUseChangesNothing ==
    [][\A p \in Procs :
          (ReadOnlyStep(p) /\ Initialized(db[name'[p]])) =>
              /\ Initialized(db'[name'[p]])
              /\ \A key \in FieldKeys :
                    Members(db', name'[p], key) = Members(db, name'[p], key)]_vars

-----------------------------------------------------------------------------
(* C3 *)

\* Callers p and q have both completed an add on the same field of the same
\* group.
BothAdded(p, q) ==
    /\ p /= q
    /\ Returned(p, "add")
    /\ Returned(q, "add")
    /\ name[p] = name[q]
    /\ fld[p] = fld[q]

\* C3 (one after the other): when two adds on the same field have both
\* completed and neither overlapped another write, the field holds the values
\* of both.
C3_SequentialAddsLoseNothing ==
    \A p, q \in Procs :
        (BothAdded(p, q) /\ ~dirty[p] /\ ~dirty[q]) =>
            StrSet(StrLeaves(args[p]) \cup StrLeaves(args[q]))
                \subseteq Members(db, name[p], fld[p])

\* C3 (interleaved): both adds have completed and the field lacks a value
\* one of them added.
C3_LostUpdate ==
    \E p, q \in Procs :
        /\ BothAdded(p, q)
        /\ ~(StrSet(StrLeaves(args[p])) \subseteq Members(db, name[p], fld[p]))

-----------------------------------------------------------------------------
(* C4 *)

\* C4: with no concurrent writer, when the stored field is a list of strings
\* with members S, add_<field>(*args) leaves get_<field>() = S united with
\* the string leaves of args.
C4_AddIsUnion ==
    [][\A p \in SeqProcs :
          (AddWriteStep(p) /\ op[p] = "add"
             /\ IsStringList(Stored(db, name[p], fld[p]))) =>
              /\ IsStringList(Stored(db', name[p], fld[p]))
              /\ Members(db', name[p], fld[p]) =
                    Members(db, name[p], fld[p]) \cup StrSet(StrLeaves(args[p]))]_vars

\* add_<field>("b", "b") on a field holding {"a"} has left {"a", "b"}.
C4_Witness ==
    /\ Returned("p1", "add")
    /\ args["p1"] = Tuple(<<Str("b"), Str("b")>>)
    /\ rd["p1"] = {Str("a")}
    /\ Members(db, name["p1"], fld["p1"]) = {Str("a"), Str("b")}

-----------------------------------------------------------------------------
(* C5 *)

\* C5: whatever the field held before, after set_<field>(*args) the value
\* get_<field>() returns is exactly the set of string leaves of args.
C5_SetThenGet ==
    \A p \in SeqProcs :
        (pc[p] = "return" /\ op[p] = "set") =>
            /\ err[p] = "ok"
            /\ IsStringList(Stored(db, name[p], fld[p]))
            /\ Members(db, name[p], fld[p]) = StrSet(StrLeaves(args[p]))

\* set_<field>("a", 5) has left {"a"}.
C5_Witness ==
    /\ Returned("p1", "set")
    /\ args["p1"] = Tuple(<<Str("a"), Num(5)>>)
    /\ Members(db, name["p1"], fld["p1"]) = {Str("a")}

-----------------------------------------------------------------------------
(* C6 *)

\* C6: when the stored document is a mapping, construction adds each missing
\* field key with an empty sequence and leaves every key that was present
\* with its value; on a mapping with both field keys it changes nothing.
C6_RepairKeepsPresentKeys ==
    [][\A p \in SeqProcs :
          (RepairStep(p) /\ IsDict(db[name[p]])) =>
              LET old == db[name[p]].m
                  new == db'[name[p]].m
              IN  /\ IsDict(db'[name[p]])
                  /\ DOMAIN new = DOMAIN old \cup FieldKeys
                  /\ \A k \in DOMAIN old : new[k] = old[k]
                  /\ \A k \in FieldKeys \ DOMAIN old : new[k] = List(<<>>)]_vars

\* {"subreddits": ["a"], "extra_key": 1} has been repaired.
C6_Witness ==
    /\ pc["p1"] = "return"
    /\ op["p1"] = "init"
    /\ db_data["p1"] = DocMissingComments
    /\ db[name["p1"]] =
          Dict((SUBREDDITS_LIST_KEY :> List(<<Str("a")>>))
               @@ ("extra_key" :> Num(1))
               @@ (COMMENTS_LIST_KEY :> List(<<>>)))

-----------------------------------------------------------------------------
(* C7 *)

\* C7: when the stored value is absent or not a mapping, construction leaves
\* exactly {"subreddits": [], "comments": []}, so both gets return the empty
\* set.
C7_RepairReplacesNonMapping ==
    [][\A p \in SeqProcs :
          (RepairStep(p) /\ ~IsDict(db[name[p]])) =>
              /\ db'[name[p]] =
                    Dict((SUBREDDITS_LIST_KEY :> List(<<>>))
                         @@ (COMMENTS_LIST_KEY :> List(<<>>)))
              /\ \A key \in FieldKeys : Members(db', name[p], key) = {}]_vars

\* The list ["not", "a", "dict"] has been replaced.
C7_Witness ==
    /\ pc["p1"] = "return"
    /\ op["p1"] = "init"
    /\ db_data["p1"] = DocNotADict
    /\ IsDict(db[name["p1"]])
    /\ DOMAIN db[name["p1"]].m = FieldKeys

-----------------------------------------------------------------------------
(* C8 *)

\* C8: add_single_<field>(value) raises a type error and leaves the store as
\* it was when value is not a string; when value is a string it does not
\* raise, and afterwards value is a member of the field together with all
\* the members stored before.
C8_AddSingle ==
    [][\A p \in SeqProcs :
          /\ (pc[p] = "idle" /\ op'[p] = "add_single") =>
                IF IsStr(args'[p].v[1])
                THEN err'[p] = "ok"
                ELSE err'[p] = "TypeError" /\ pc'[p] = "return" /\ db' = db
          /\ (AddWriteStep(p) /\ op[p] = "add_single") =>
                /\ args[p].v[1] \in Members(db', name[p], fld[p])
                /\ rd[p] \subseteq Members(db', name[p], fld[p])]_vars

-----------------------------------------------------------------------------
(* C9 *)

\* C9: __normalize_str_args returns a set of strings for every input, and
\* normalizing a list or tuple around that set returns the same set.
C9_NormalizeIdempotent ==
    /\ result.done => result.val \subseteq Strings
    /\ again.done => again.val = result.val

\* [["a"], 5] has been normalized to {"a"}, and that set normalized again.
C9_Witness ==
    /\ item = List(<<List(<<Str("a")>>), Num(5)>>)
    /\ result = [done |-> TRUE, val |-> {"a"}]
    /\ again.done

-----------------------------------------------------------------------------
(* C10 *)

\* C10: a set_ / add_ / add_single_ call on one field leaves the other field
\* and every additional key of the group's document unchanged, and no step
\* of an instance changes the document of a group with another name.
C10_FieldsAndGroupsIndependent ==
    [][\A p \in SeqProcs :
          (pc'[p] /= pc[p]) =>
              /\ \A g \in Groups \ {name'[p]} : db'[g] = db[g]
              /\ (pc'[p] = "return" /\ op'[p] \in {"set", "add", "add_single"}) =>
                    /\ IsDict(db'[name[p]])
                    /\ Rest(db'[name[p]], fld'[p]) = Rest(db[name[p]], fld'[p])]_vars

\* add_comments has returned on a document with an additional key, next to
\* another group's document.
C10_Witness ==
    /\ Returned("p1", "add")
    /\ fld["p1"] = COMMENTS_LIST_KEY
    /\ args["p1"] = Tuple(<<Str("b")>>)
    /\ "extra_key" \in DOMAIN db[name["p1"]].m
    /\ Stored(db, name["p1"], SUBREDDITS_LIST_KEY) = List(<<Str("a")>>)
    /\ db["tech"] = DocMissingComments

====
